---- MODULE Spec2Model ----
(***************************************************************************)
(* State-machine model of the simple transport protocol: sender.py and     *)
(* receiver.py, their threads, and the datagram channel between them.      *)
(***************************************************************************)
EXTENDS Integers, Sequences, FiniteSets, TLC

\* ---------------------------------------------------------------- bounds
MaxN == 2          \* largest file, in segments
MaxW == 2          \* largest sender window, in segments
MaxChan == 2       \* datagrams in flight per direction (FIFO channels)
MaxDupAck == 3     \* largest count kept in a duplicate-ACK counter segmtAck[pos]
MaxFin == 2        \* largest count kept in the receiver's FIN counter n_fin
MaxDup == 1        \* largest count kept in the receiver's duplicate counter dupdata

\* ------------------------------------------------------ program constants
MSS == 1000
Mod16 == 65536
Cycles == 15
MaxTries == 4
DupAcks == 3
DATA == 0
ACK == 1
SYN == 2
FIN == 3
RESET == 4

VARIABLES
  net, ISN, file_size, win_size,                       \* the run's parameters
  s_established, sendingdata, finished, terminate, s_active,
  win_lb, win_ub, buffer_size, data_size, s_buffer,
  segmtRcved, segmtSent, segmtTimer, segmtAck, FSN, PSN,
  m_pc, lb, ub, si,                                    \* sender main thread
  e_pc, e_i, f_pc, f_i, t_pc, l_pc,                    \* sender sub-threads
  l_ack,                                               \* rv_listener's locals
  s_snd,                                               \* sender log: snd lines
  r_established, r_DSN, r_buffer, n_fin, r_active,
  lendata, dupdata,                                    \* receiver statistics
  r_lpc, c_pc, r_pc, r_file, r_snd,                    \* receiver threads, output, log
  fwd, rev                                             \* datagrams in flight

params == <<net, ISN, file_size, win_size>>
sflags == <<s_established, sendingdata, finished, terminate, s_active>>
swin   == <<win_lb, win_ub>>
sfile  == <<buffer_size, data_size, s_buffer>>
sarr   == <<segmtRcved, segmtSent, segmtTimer>>
sack   == <<segmtAck, FSN, PSN, l_ack>>
smain  == <<m_pc, lb, ub, si>>
sexec  == <<e_pc, e_i, f_pc, f_i>>
rstate == <<r_established, r_DSN, r_buffer, n_fin, lendata, dupdata>>
rthr   == <<r_active, r_lpc, c_pc, r_pc, r_file, r_snd>>
svars  == <<sflags, swin, sfile, sarr, sack, smain, sexec, t_pc, l_pc, s_snd>>
rvars  == <<rstate, rthr>>
vars   == <<params, svars, rvars, fwd, rev>>

\* ------------------------------------------------------------- segments
NoPayload == [id |-> -1, len |-> 0]
Seg(t, s) == [type |-> t, seqno |-> s, payload |-> NoPayload]
DataSeg(s, p) == [type |-> DATA, seqno |-> s, payload |-> p]

DSN == (ISN + 1) % Mod16

\* The partition of a file of n bytes that read_file loads into buffer.
Partitions(n) == (n \div MSS) + (IF n % MSS # 0 THEN 1 ELSE 0)
FileBuffer(n) ==
  [i \in 0 .. Partitions(n) - 1 |->
     [id |-> i, len |-> IF i = Partitions(n) - 1 THEN n - i * MSS ELSE MSS]]
AsSeq(f, k) == [j \in 1 .. k |-> f[j - 1]]

\* ------------------------------------------------------------- channel
\* A FIFO channel is the sequence of datagrams in flight. The wire that loses,
\* duplicates and reorders is the set of datagrams sent on it: it may deliver any
\* of them, any number of times, or never.
Chaos == net = "chaos"
Empty == IF Chaos THEN {} ELSE <<>>
Arrivals(ch) == IF Chaos THEN ch ELSE IF ch = <<>> THEN {} ELSE {Head(ch)}
After(ch) == IF Chaos THEN ch ELSE Tail(ch)
\* sendto() on a channel with room; on a full lossy channel the datagram is one of
\* the losses. RESET bypasses the loss simulation.
Put(ch, m) ==
  IF Chaos THEN ch \cup {m}
  ELSE IF Len(ch) < MaxChan \/ m.type = RESET THEN Append(ch, m)
  ELSE ch

\* ------------------------------------------------------------ utilities
\* rv_listener between datagrams: no ACK is being handled.
Idle == [at |-> "idle", seqno |-> 0, pos |-> 0, j |-> 0]
Min(a, b) == IF a < b THEN a ELSE b
Bump(log, k) == [log EXCEPT ![k] = @ + 1]
NoAck == [p \in {} |-> 0]
\* Thread(target=...).start() of a timer thread that sleeps first: started where
\* one was started before, it is the state "again".
Arm(pc) == IF pc = "none" THEN "sleep" ELSE "again"

\* The sender process is gone once close() has called exit(0); the receiver
\* process once run() has written the file and returned.
SAlive == m_pc # "closed"
RAlive == r_pc # "done"
\* A peer decodes datagrams while its listener is in recvfrom; what is sent to a
\* peer whose listener has returned is never decoded, and is not kept.
SHears == SAlive /\ l_pc = "recv"
RHears == RAlive /\ r_lpc = "recv"
ToRcv(m) == IF RHears THEN Put(fwd, m) ELSE fwd
ToSnd(m) == IF SHears THEN Put(rev, m) ELSE rev
\* Without losses a send waits for room in the channel.
RoomFwd == IF net = "reliable" /\ RHears THEN Len(fwd) < MaxChan ELSE TRUE
RoomRev == IF net = "reliable" /\ SHears THEN Len(rev) < MaxChan ELSE TRUE

\* ------------------------------------------- sender: retiring sub-threads
\* The flags a sleeping executor tests on waking never revert, so once its test
\* is decided it only returns: it is retired at the step that decides the test.
ERetire(pc, est, term, act) ==
  IF pc = "sleep" /\ (est \/ term \/ ~act) THEN "done" ELSE pc
TRetire(tp, rcved, term, act) ==
  [i \in DOMAIN tp |->
     IF tp[i] = "sleep" /\ (term \/ ~act \/ rcved[i] = 1) THEN "done" ELSE tp[i]]
\* The executors after a step of another thread that writes the flags.
Retire ==
  /\ e_pc' = ERetire(e_pc, s_established', terminate', s_active')
  /\ e_i' = IF ERetire(e_pc, s_established', terminate', s_active') = "done" THEN 0 ELSE e_i
  /\ f_pc' = ERetire(f_pc, finished', terminate', s_active')
  /\ f_i' = IF ERetire(f_pc, finished', terminate', s_active') = "done" THEN 0 ELSE f_i
  /\ t_pc' = TRetire(t_pc, segmtRcved', terminate', s_active')
\* exit(0) ends every thread of the process.
Killed(pc) == IF pc = "gaveup" THEN pc ELSE "done"

\* ---------------------------------------------------- sender: main thread
\* close(): active = False, statistics, exit(0).
Close ==
  /\ s_active' = FALSE
  /\ m_pc' = "closed"
  /\ lb' = 0 /\ ub' = 0 /\ si' = 0
  /\ e_pc' = Killed(e_pc) /\ e_i' = 0 /\ f_pc' = Killed(f_pc) /\ f_i' = 0
  /\ t_pc' = [i \in DOMAIN t_pc |-> "done"]
  /\ l_pc' = "exited"
  /\ rev' = Empty

\* reset() that closes without sending RESET.
ResetSilent == Close /\ UNCHANGED <<fwd, s_snd>>

\* reset(): send_msg(4, 0, 0), then close().
Reset ==
  /\ fwd' = ToRcv(Seg(RESET, 0))
  /\ s_snd' = Bump(s_snd, RESET)
  /\ Close

\* What a turn of a handler's loop that neither resets nor closes leaves alone.
MainStays == UNCHANGED <<s_active, lb, ub, si, sexec, t_pc, l_pc, fwd, rev, s_snd>>

\* run() enters estab_hdlr, which starts the estab_exec(1) thread.
MainEstabHdlr ==
  /\ m_pc = "estab_hdlr"
  /\ m_pc' = "estab_loop"
  /\ e_pc' = "send" /\ e_i' = 1
  /\ UNCHANGED <<params, sflags, swin, sfile, sarr, sack, lb, ub, si, f_pc, f_i,
                 t_pc, l_pc, s_snd, rvars, fwd, rev>>

\* One turn of estab_hdlr's loop that does not spin.
MainEstabLoop ==
  /\ m_pc = "estab_loop"
  /\ s_established \/ terminate \/ ~s_active
  /\ IF s_established THEN m_pc' = "read_file" /\ MainStays
     ELSE IF terminate THEN Reset
     ELSE Close /\ UNCHANGED <<fwd, s_snd>>
  /\ UNCHANGED <<params, s_established, sendingdata, finished, terminate, swin, sfile,
                 sarr, sack, rvars>>

\* read_file(): the partition, the per-segment arrays, the initial window.
MainReadFile ==
  /\ m_pc = "read_file"
  /\ data_size' = file_size
  /\ buffer_size' = Partitions(file_size)
  /\ s_buffer' = FileBuffer(file_size)
  /\ segmtRcved' = [i \in 0 .. Partitions(file_size) - 1 |-> 0]
  /\ segmtSent' = [i \in 0 .. Partitions(file_size) - 1 |-> 0]
  /\ segmtTimer' = [i \in 0 .. Partitions(file_size) - 1 |-> 0]
  /\ win_ub' = Min(win_size - 1, Partitions(file_size) - 1)
  /\ m_pc' = "tx_loop"
  /\ UNCHANGED <<params, sflags, win_lb, sack, lb, ub, si, sexec, t_pc, l_pc, s_snd,
                 rvars, fwd, rev>>

\* A scan that arms the oldest position without testing segmtTimer.
ScanActsAlways(l, i) == segmtSent[i] = 0 \/ i = l

\* A scan that visits the positions of [from, u] from the top: the last position
\* at which it acts.
NextActFromTop(l, from, u) ==
  IF \E i \in from .. u : segmtSent[i] = 0 \/ (i = l /\ segmtTimer[i] = 0)
    THEN CHOOSE i \in from .. u :
           /\ segmtSent[i] = 0 \/ (i = l /\ segmtTimer[i] = 0)
           /\ \A j \in i + 1 .. u : ~(segmtSent[j] = 0 \/ (j = l /\ segmtTimer[j] = 0))
    ELSE u + 1

\* What an iteration of the scan over [l, u] does at position i (lines 260, 283).
ScanActs(l, i) == segmtSent[i] = 0 \/ (i = l /\ segmtTimer[i] = 0)
\* The first position of [from, u] at which the scan acts; u + 1 when there is none.
NextAct(l, from, u) ==
  IF \E i \in from .. u : ScanActs(l, i)
    THEN CHOOSE i \in from .. u : ScanActs(l, i) /\ \A j \in from .. i - 1 : ~ScanActs(l, j)
    ELSE u + 1

\* The head of transeg_exec_hdlr's loop: leave it, reset, close, or snapshot the
\* window and run the scan up to the first position it acts on.
MainTxLoop ==
  /\ m_pc = "tx_loop"
  /\ IF ~sendingdata THEN m_pc' = "fin_hdlr" /\ MainStays
     ELSE IF terminate THEN Reset
     ELSE IF ~s_active THEN Close /\ UNCHANGED <<fwd, s_snd>>
     ELSE /\ NextAct(win_lb, win_lb, win_ub) <= win_ub
          /\ lb' = win_lb /\ ub' = win_ub
          /\ si' = NextAct(win_lb, win_lb, win_ub)
          /\ m_pc' = "tx_scan"
          /\ UNCHANGED <<s_active, sexec, t_pc, l_pc, fwd, rev, s_snd>>
  /\ UNCHANGED <<params, s_established, sendingdata, finished, terminate, swin, sfile,
                 sarr, sack, rvars>>

\* The head of transeg_exec_hdlr's loop up to "lb = self.win_lb" (lines 234-248).
MainTxLb ==
  /\ m_pc = "tx_loop"
  /\ IF ~sendingdata THEN m_pc' = "fin_hdlr" /\ MainStays
     ELSE IF terminate THEN Reset
     ELSE IF ~s_active THEN Close /\ UNCHANGED <<fwd, s_snd>>
     ELSE /\ lb' = win_lb
          /\ m_pc' = "tx_ub"
          /\ UNCHANGED <<s_active, ub, si, sexec, t_pc, l_pc, fwd, rev, s_snd>>
  /\ UNCHANGED <<params, s_established, sendingdata, finished, terminate, swin, sfile,
                 sarr, sack, rvars>>

\* "ub = self.win_ub" (line 249), and the scan of [lb, ub] up to the first position
\* it acts on; a scan that acts on none is over.
MainTxUb ==
  /\ m_pc = "tx_ub"
  /\ IF NextAct(lb, lb, win_ub) <= win_ub
       THEN /\ ub' = win_ub /\ si' = NextAct(lb, lb, win_ub)
            /\ m_pc' = "tx_scan" /\ UNCHANGED lb
       ELSE m_pc' = "tx_loop" /\ si' = 0 /\ lb' = 0 /\ ub' = 0
  /\ UNCHANGED <<params, sflags, swin, sfile, sarr, sack, sexec, t_pc, l_pc, s_snd,
                 rvars, fwd, rev>>

\* The scan's iteration at position i of the snapshot [l, u]: send and arm, then on
\* to the next position it acts on.
ScanOn(l, u, i) ==
  LET sent == [segmtSent EXCEPT ![i] = 1]
      nxt  == IF \E k \in i + 1 .. u : sent[k] = 0
                THEN CHOOSE k \in i + 1 .. u : sent[k] = 0 /\ \A j \in i + 1 .. k - 1 : sent[j] # 0
                ELSE u + 1
  IN /\ IF segmtSent[i] = 0
          THEN /\ RoomFwd
               /\ segmtSent' = sent
               /\ fwd' = ToRcv(DataSeg((DSN + MSS * i) % Mod16, s_buffer[i]))
          ELSE UNCHANGED <<segmtSent, fwd>>
     /\ IF i = l
          THEN /\ segmtTimer' = [segmtTimer EXCEPT ![i] = 1]
               /\ t_pc' = TRetire([t_pc EXCEPT ![i] = Arm(@)], segmtRcved, terminate, s_active)
          ELSE UNCHANGED <<segmtTimer, t_pc>>
     /\ IF nxt <= u
          THEN m_pc' = "tx_scan" /\ si' = nxt /\ UNCHANGED <<lb, ub>>
          ELSE m_pc' = "tx_loop" /\ si' = 0 /\ lb' = 0 /\ ub' = 0

MainTxScan ==
  /\ m_pc = "tx_scan"
  /\ IF terminate \/ ~s_active
       THEN /\ m_pc' = "tx_loop" /\ si' = 0 /\ lb' = 0 /\ ub' = 0
            /\ UNCHANGED <<segmtSent, segmtTimer, t_pc, fwd>>
       ELSE ScanOn(lb, ub, si)
  /\ UNCHANGED <<params, sflags, swin, sfile, segmtRcved, sack, sexec, l_pc, s_snd,
                 rvars, rev>>

\* fin_hdlr starts the fin_exec(1) thread.
MainFinHdlr ==
  /\ m_pc = "fin_hdlr"
  /\ m_pc' = "fin_loop"
  /\ f_pc' = "send" /\ f_i' = 1
  /\ UNCHANGED <<params, sflags, swin, sfile, sarr, sack, lb, ub, si, e_pc, e_i,
                 t_pc, l_pc, s_snd, rvars, fwd, rev>>

\* One turn of fin_hdlr's loop that does not spin; after the loop run() closes.
MainFinLoop ==
  /\ m_pc = "fin_loop"
  /\ finished \/ terminate \/ ~s_active
  /\ IF finished THEN Close /\ UNCHANGED <<fwd, s_snd>>
     ELSE IF terminate THEN Reset
     ELSE Close /\ UNCHANGED <<fwd, s_snd>>
  /\ UNCHANGED <<params, s_established, sendingdata, finished, terminate, swin, sfile,
                 sarr, sack, rvars>>

\* ------------------------------------------------- sender: timed executors
\* estab_exec(i): send SYN, then sleep rto.
EstabSend ==
  /\ SAlive /\ e_pc = "send"
  /\ RoomFwd
  /\ fwd' = ToRcv(Seg(SYN, ISN))
  /\ s_snd' = Bump(s_snd, SYN)
  /\ e_pc' = ERetire("sleep", s_established, terminate, s_active)
  /\ e_i' = IF ERetire("sleep", s_established, terminate, s_active) = "done" THEN 0 ELSE e_i
  /\ UNCHANGED <<params, sflags, swin, sfile, sarr, sack, smain, f_pc, f_i,
                 t_pc, l_pc, rvars, rev>>

\* Giving up one trial early.
LastTryEarly(i) == i = MaxTries - 1

\* The give-up test of estab_exec and fin_exec: "if i == 4".
LastTry(i) == i = MaxTries

\* estab_exec(i) wakes: return, give up at the 4th trial, or recurse.
EstabWake ==
  /\ SAlive /\ e_pc = "sleep"
  /\ IF s_established \/ terminate \/ ~s_active
       THEN e_pc' = "done" /\ e_i' = 0 /\ UNCHANGED terminate
       ELSE IF LastTry(e_i)
         THEN e_pc' = "gaveup" /\ terminate' = TRUE /\ UNCHANGED e_i
         ELSE e_pc' = "send" /\ e_i' = e_i + 1 /\ UNCHANGED terminate
  /\ f_pc' = ERetire(f_pc, finished, terminate', s_active)
  /\ f_i' = IF ERetire(f_pc, finished, terminate', s_active) = "done" THEN 0 ELSE f_i
  /\ t_pc' = TRetire(t_pc, segmtRcved, terminate', s_active)
  /\ UNCHANGED <<params, s_established, sendingdata, finished, s_active, swin, sfile,
                 sarr, sack, smain, l_pc, s_snd, rvars, fwd, rev>>

\* fin_exec(i): send FIN with seqno FSN, then sleep rto.
FinSend ==
  /\ SAlive /\ f_pc = "send"
  /\ RoomFwd
  /\ fwd' = ToRcv(Seg(FIN, FSN))
  /\ s_snd' = Bump(s_snd, FIN)
  /\ f_pc' = ERetire("sleep", finished, terminate, s_active)
  /\ f_i' = IF ERetire("sleep", finished, terminate, s_active) = "done" THEN 0 ELSE f_i
  /\ UNCHANGED <<params, sflags, swin, sfile, sarr, sack, smain, e_pc, e_i,
                 t_pc, l_pc, rvars, rev>>

\* fin_exec(i) wakes: return, give up at the 4th trial, or recurse.
FinWake ==
  /\ SAlive /\ f_pc = "sleep"
  /\ IF finished \/ terminate \/ ~s_active
       THEN f_pc' = "done" /\ f_i' = 0 /\ UNCHANGED terminate
       ELSE IF LastTry(f_i)
         THEN f_pc' = "gaveup" /\ terminate' = TRUE /\ UNCHANGED f_i
         ELSE f_pc' = "send" /\ f_i' = f_i + 1 /\ UNCHANGED terminate
  /\ e_pc' = ERetire(e_pc, s_established, terminate', s_active)
  /\ e_i' = IF ERetire(e_pc, s_established, terminate', s_active) = "done" THEN 0 ELSE e_i
  /\ t_pc' = TRetire(t_pc, segmtRcved, terminate', s_active)
  /\ UNCHANGED <<params, s_established, sendingdata, finished, s_active, swin, sfile,
                 sarr, sack, smain, l_pc, s_snd, rvars, fwd, rev>>

\* retranseg_exec(i) wakes after rto: return, or go on to retransmit.
TimerWake(i) ==
  /\ SAlive /\ t_pc[i] = "sleep"
  /\ t_pc' = [t_pc EXCEPT ![i] =
                IF terminate \/ ~s_active THEN "done"
                ELSE IF segmtRcved[i] = 0 THEN "send" ELSE "done"]
  /\ UNCHANGED <<params, sflags, swin, sfile, sarr, sack, smain, sexec, l_pc, s_snd,
                 rvars, fwd, rev>>

\* retranseg_exec(i) retransmits DATA i and recurses into the next sleep.
TimerSend(i) ==
  /\ SAlive /\ t_pc[i] = "send"
  /\ RoomFwd
  /\ fwd' = ToRcv(DataSeg((DSN + MSS * i) % Mod16, s_buffer[i]))
  /\ t_pc' = TRetire([t_pc EXCEPT ![i] = "sleep"], segmtRcved, terminate, s_active)
  /\ UNCHANGED <<params, sflags, swin, sfile, sarr, sack, smain, sexec, l_pc, s_snd,
                 rvars, rev>>

\* ------------------------------------------------------ sender: listener
\* The position computation taking an ACK for the last byte of position p as asking
\* for p + 2.
RECURSIVE SndPosOneOff(_, _)
SndPosOneOff(s, i) ==
  IF i >= Cycles THEN 0
  ELSE LET v == s + Mod16 * i - DSN
       IN IF v % MSS = 0 THEN v \div MSS + 1
          ELSE IF v = data_size THEN buffer_size
          ELSE SndPosOneOff(s, i + 1)

\* The position an ACK with sequence number s asks for (lines 344-356).
RECURSIVE SndPosFrom(_, _)
SndPosFrom(s, i) ==
  IF i >= Cycles THEN 0
  ELSE LET v == s + Mod16 * i - DSN
       IN IF v % MSS = 0 THEN v \div MSS
          ELSE IF v = data_size THEN buffer_size
          ELSE SndPosFrom(s, i + 1)
SndPos(s) == SndPosFrom(s, 0)

\* The window after a cumulative ACK for pos (line 407).
SlideUb(pos) == Min(pos + win_size - 1, buffer_size - 1)

\* The sequence number of the ACK that finishes the connection (line 429).
FinAck == (FSN + 1) % Mod16

\* rv_listener in ESTAB phase (lines 325-335).
ListenEstab(m) ==
  /\ IF m.type = ACK /\ m.seqno = DSN
       THEN /\ s_established' = TRUE /\ sendingdata' = TRUE /\ PSN' = m.seqno
            /\ UNCHANGED <<terminate, l_pc>>
       ELSE /\ terminate' = TRUE /\ l_pc' = "exited"
            /\ UNCHANGED <<s_established, sendingdata, PSN>>
  /\ UNCHANGED <<finished, s_active, swin, segmtRcved, segmtAck, FSN, fwd>>

\* rv_listener in the finish phase (lines 426-435).
ListenFin(m) ==
  /\ IF m.type = ACK /\ m.seqno = FinAck
       THEN finished' = TRUE /\ PSN' = m.seqno /\ UNCHANGED <<terminate, l_pc>>
       ELSE terminate' = TRUE /\ l_pc' = "exited" /\ UNCHANGED <<finished, PSN>>
  /\ UNCHANGED <<s_established, sendingdata, s_active, swin, segmtRcved, segmtAck, FSN, fwd>>

\* A test that takes every ACK that is not for win_lb as a cumulative one.
LaterOrLower(pos) == pos # win_lb

\* "elif pos > self.win_lb" (line 388): the ACK asks for a later position.
Later(pos) == pos > win_lb

\* segmtAck[pos] is read only as segmtAck[pos] % 3: a count above MaxDupAck is
\* kept as the count three below it.
Fold(n) == IF n > MaxDupAck THEN n - DupAcks ELSE n

\* rv_listener on an ACK in the data transmission phase (lines 342-417).
ListenData(m) ==
  LET pos  == SndPos(m.seqno)
      ack0 == IF PSN # m.seqno THEN NoAck ELSE segmtAck
      n    == IF pos \in DOMAIN ack0 THEN ack0[pos] + 1 ELSE 1
  IN IF pos = win_lb
       THEN \* duplicate ACK: count it, fast retransmit on every third
            /\ segmtAck' = IF PSN = m.seqno
                             THEN [p \in DOMAIN ack0 \cup {pos} |->
                                     IF p = pos THEN Fold(n) ELSE ack0[p]]
                             ELSE ack0
            /\ IF PSN = m.seqno /\ pos \in DOMAIN ack0 /\ n % DupAcks = 0
                 THEN IF pos \in DOMAIN s_buffer
                        THEN /\ RoomFwd
                             /\ fwd' = ToRcv(DataSeg((DSN + MSS * pos) % Mod16, s_buffer[pos]))
                             /\ PSN' = m.seqno /\ UNCHANGED l_pc
                        ELSE \* buffer[pos] raises IndexError: the thread dies
                             l_pc' = "crashed" /\ UNCHANGED <<fwd, PSN>>
                 ELSE PSN' = m.seqno /\ UNCHANGED <<fwd, l_pc>>
            /\ UNCHANGED <<sflags, swin, segmtRcved, FSN>>
       ELSE IF Later(pos)
         THEN \* cumulative ACK: flag [0, pos), then finish or slide
              /\ segmtAck' = ack0
              /\ segmtRcved' = [j \in DOMAIN segmtRcved |-> IF j < pos THEN 1 ELSE segmtRcved[j]]
              /\ IF pos > buffer_size
                   THEN \* segmtRcved[j] raises IndexError: the thread dies
                        l_pc' = "crashed" /\ UNCHANGED <<sendingdata, FSN, swin, PSN>>
                   ELSE IF pos = buffer_size
                     THEN /\ sendingdata' = FALSE /\ FSN' = m.seqno /\ PSN' = m.seqno
                          /\ UNCHANGED <<swin, l_pc>>
                     ELSE /\ win_ub' = SlideUb(pos) /\ win_lb' = pos /\ PSN' = m.seqno
                          /\ UNCHANGED <<sendingdata, FSN, l_pc>>
              /\ UNCHANGED <<s_established, finished, terminate, s_active, fwd>>
         ELSE \* unexpected low ACK: no action
              /\ segmtAck' = ack0 /\ PSN' = m.seqno
              /\ UNCHANGED <<sflags, swin, segmtRcved, FSN, l_pc, fwd>>

\* rv_listener on one datagram (lines 306-438).
Listen(m) ==
  IF m.type = RESET
    THEN /\ s_active' = FALSE /\ l_pc' = "exited"
         /\ UNCHANGED <<s_established, sendingdata, finished, terminate, swin,
                        segmtRcved, sack, fwd>>
  ELSE IF ~s_established THEN ListenEstab(m)
  ELSE IF sendingdata
    THEN IF m.type = ACK THEN ListenData(m)
         ELSE /\ terminate' = TRUE /\ l_pc' = "exited"
              /\ UNCHANGED <<s_established, sendingdata, finished, s_active, swin,
                             segmtRcved, sack, fwd>>
  ELSE ListenFin(m)

SndRecv ==
  /\ SHears
  /\ \E m \in Arrivals(rev) :
       /\ Listen(m)
       /\ rev' = IF l_pc' = "recv" THEN After(rev) ELSE Empty
  /\ Retire
  /\ UNCHANGED <<params, sfile, segmtSent, segmtTimer, smain, s_snd, l_ack, rvars>>

\* ------------------------------------- sender: listener, write by write
\* The ACK opens the cumulative branch "elif pos > self.win_lb" (line 388).
Cumulative(m) ==
  s_established /\ sendingdata /\ m.type = ACK /\ Later(SndPos(m.seqno))

\* A cumulative branch that leaves the acked flags alone.
FlagSkipped(rcved, j) == rcved

\* "self.segmtRcved[j] = 1" (line 392).
Flagged(rcved, j) == [rcved EXCEPT ![j] = 1]

\* The ACK completes the handshake (lines 325-328).
Handshake(m) == ~s_established /\ m.type = ACK /\ m.seqno = DSN

\* rv_listener reads one datagram. For the handshake ACK it writes established
\* (line 329); a cumulative ACK is decoded, pos computed and the duplicate-ACK
\* buffer cleaned (lines 310-360); the other writes of both follow one by one.
\* Any other datagram, which writes at most one shared variable, is handled to the
\* end of the turn.
SndTake ==
  /\ SHears /\ l_ack = Idle
  /\ \E m \in Arrivals(rev) :
       IF Handshake(m)
         THEN /\ s_established' = TRUE
              /\ l_ack' = [at |-> "sending", seqno |-> m.seqno, pos |-> 0, j |-> 0]
              /\ rev' = After(rev)
              /\ UNCHANGED <<sendingdata, finished, terminate, s_active, swin, segmtRcved,
                             segmtAck, FSN, PSN, l_pc, fwd>>
       ELSE IF Cumulative(m)
         THEN /\ l_ack' = [at |-> "flag", seqno |-> m.seqno, pos |-> SndPos(m.seqno),
                           j |-> 0]
              /\ segmtAck' = IF PSN # m.seqno THEN NoAck ELSE segmtAck
              /\ rev' = After(rev)
              /\ UNCHANGED <<sflags, swin, segmtRcved, FSN, PSN, l_pc, fwd>>
         ELSE /\ Listen(m)
              /\ rev' = IF l_pc' = "recv" THEN After(rev) ELSE Empty
              /\ UNCHANGED l_ack
  /\ Retire
  /\ UNCHANGED <<params, sfile, segmtSent, segmtTimer, smain, s_snd, rvars>>

\* The listener is inside the cumulative branch, at the given place.
Handling(at) == SAlive /\ l_pc = "recv" /\ l_ack.at = at

\* "self.sendingdata = True" (line 330), then the end of the turn (line 438).
SndSending ==
  /\ Handling("sending")
  /\ sendingdata' = TRUE /\ PSN' = l_ack.seqno
  /\ l_ack' = Idle
  /\ UNCHANGED <<params, s_established, finished, terminate, s_active, swin, sfile, sarr,
                 segmtAck, FSN, smain, sexec, t_pc, l_pc, s_snd, rvars, fwd, rev>>

\* "self.segmtRcved[j] = 1" for the next j of range(0, pos) (lines 391-392); past
\* the end of the list it raises IndexError and the thread dies.
SndFlag ==
  /\ Handling("flag") /\ l_ack.j < l_ack.pos
  /\ IF l_ack.j \in DOMAIN segmtRcved
       THEN /\ segmtRcved' = Flagged(segmtRcved, l_ack.j)
            /\ l_ack' = [l_ack EXCEPT !.j = @ + 1]
            /\ UNCHANGED <<l_pc, rev>>
       ELSE /\ l_pc' = "crashed" /\ rev' = Empty
            /\ UNCHANGED <<segmtRcved, l_ack>>
  /\ UNCHANGED <<params, sflags, swin, sfile, segmtSent, segmtTimer, segmtAck, FSN, PSN,
                 smain, s_snd, rvars, fwd>>
  /\ Retire

\* "self.sendingdata = False" (line 398).
SndLeave ==
  /\ Handling("flag") /\ l_ack.j >= l_ack.pos /\ l_ack.pos = buffer_size
  /\ sendingdata' = FALSE
  /\ l_ack' = [l_ack EXCEPT !.at = "fsn"]
  /\ UNCHANGED <<params, s_established, finished, terminate, s_active, swin, sfile, sarr,
                 segmtAck, FSN, PSN, smain, l_pc, s_snd, rvars, fwd, rev>>
  /\ Retire

\* "self.FSN = stp_seqno" (line 399), then the end of the turn (line 438).
SndFsn ==
  /\ Handling("fsn")
  /\ FSN' = l_ack.seqno /\ PSN' = l_ack.seqno
  /\ l_ack' = Idle
  /\ UNCHANGED <<params, sflags, swin, sfile, sarr, segmtAck, smain, sexec, t_pc, l_pc,
                 s_snd, rvars, fwd, rev>>

\* "self.win_ub = min(pos + self.win_size - 1, self.buffer_size - 1)" (line 407).
SndUb ==
  /\ Handling("flag") /\ l_ack.j >= l_ack.pos /\ l_ack.pos # buffer_size
  /\ win_ub' = SlideUb(l_ack.pos)
  /\ l_ack' = [l_ack EXCEPT !.at = "lb"]
  /\ UNCHANGED <<params, sflags, win_lb, sfile, sarr, segmtAck, FSN, PSN, smain, sexec,
                 t_pc, l_pc, s_snd, rvars, fwd, rev>>

\* "self.win_lb = pos" (line 408), then the end of the turn (line 438).
SndLb ==
  /\ Handling("lb")
  /\ win_lb' = l_ack.pos /\ PSN' = l_ack.seqno
  /\ l_ack' = Idle
  /\ UNCHANGED <<params, sflags, win_ub, sfile, sarr, segmtAck, FSN, smain, sexec, t_pc,
                 l_pc, s_snd, rvars, fwd, rev>>

\* ---------------------------------------------------- receiver: listener
\* send_msg(flag, seqno) of the receiver for an ACK: the reverse loss draw
\* "randrange(100) < rlp" (lost), then the socket.
Losses == IF net = "lossy" THEN BOOLEAN ELSE {FALSE}
RAck(s, lost) ==
  /\ lost \/ RoomRev
  /\ rev' = IF lost THEN rev ELSE ToSnd(Seg(ACK, s))

\* A position search that tries the first cycle only: a sequence number that
\* wrapped is never matched.
RcvPosFirstCycle(s, i) ==
  LET v == s + Mod16 * i - r_DSN
  IN IF v >= 0 /\ v % MSS = 0 THEN v \div MSS ELSE 0

\* The position of the DATA segment with sequence number s (lines 201-210).
RECURSIVE RcvPosFrom(_, _)
RcvPosFrom(s, i) ==
  IF i >= Cycles THEN 0
  ELSE LET v == s + Mod16 * i - r_DSN
       IN IF v % MSS = 0 THEN v \div MSS ELSE RcvPosFrom(s, i + 1)
RcvPos(s) == RcvPosFrom(s, 0)

\* The buffer after a DATA segment for pos (lines 214-222).
Store(buf, pos, payload) ==
  IF pos \in DOMAIN buf THEN buf
  ELSE [p \in DOMAIN buf \cup {pos} |-> IF p = pos THEN payload ELSE buf[p]]

\* A cumulative count that does not stop at the first gap: the bytes of every
\* buffered position in S.
RECURSIVE BytesOf(_, _)
BytesOf(buf, S) ==
  IF S = {} THEN 0
  ELSE LET p == CHOOSE x \in S : TRUE IN buf[p].len + BytesOf(buf, S \ {p})
CumLenPastGaps(buf, i) == BytesOf(buf, {p \in DOMAIN buf : p >= i})

\* A byte counter that counts every DATA segment that arrives.
ReceivedEvery(buf, pos, payload) == lendata + payload.len

\* lendata and dupdata after a DATA segment for pos (lines 215-222); dupdata is
\* counted up to MaxDup.
Received(buf, pos, payload) == IF pos \in DOMAIN buf THEN lendata ELSE lendata + payload.len
Duplicates(buf, pos) == IF pos \in DOMAIN buf THEN Min(dupdata + 1, MaxDup) ELSE dupdata

\* Bytes of the contiguous buffered prefix from position i on (lines 227-231).
AckWalk == 1000
RECURSIVE CumLen(_, _)
CumLen(buf, i) ==
  IF i >= AckWalk \/ i \notin DOMAIN buf THEN 0 ELSE buf[i].len + CumLen(buf, i + 1)
CumAck(buf) == (r_DSN + CumLen(buf, 0)) % Mod16

\* A reset() that clears active without sending RESET.
RResetSilent ==
  /\ r_active' = FALSE
  /\ r_lpc' = "exited"
  /\ UNCHANGED <<rev, r_snd>>

\* reset() of the receiver: send_msg(4, 0), active = False; the listener breaks.
RReset ==
  /\ rev' = ToSnd(Seg(RESET, 0))
  /\ r_snd' = r_snd + 1
  /\ r_active' = FALSE
  /\ r_lpc' = "exited"

\* After a datagram that does not break the loop: "while self.active".
RLoop == r_lpc' = IF r_active THEN "recv" ELSE "exited"

\* fw_listener on one datagram that passed the forward loss draw (lines 157-256).
\* n_fin is read as 0, 1 or more: it is counted up to MaxFin.
RListen(m, lost) ==
  IF m.type = RESET
    THEN /\ r_active' = FALSE /\ r_lpc' = "exited"
         /\ UNCHANGED <<rstate, r_snd, rev>>
  ELSE IF ~r_established
    THEN IF m.type = SYN
           THEN /\ r_established' = TRUE
                /\ r_DSN' = (m.seqno + 1) % Mod16
                /\ RAck((m.seqno + 1) % Mod16, lost)
                /\ RLoop
                /\ UNCHANGED <<r_buffer, n_fin, lendata, dupdata, r_active, r_snd>>
           ELSE RReset /\ UNCHANGED rstate
  ELSE IF m.type = DATA
    THEN IF n_fin # 0
           THEN RReset /\ UNCHANGED rstate
           ELSE /\ r_buffer' = Store(r_buffer, RcvPos(m.seqno), m.payload)
                /\ lendata' = Received(r_buffer, RcvPos(m.seqno), m.payload)
                /\ dupdata' = Duplicates(r_buffer, RcvPos(m.seqno))
                /\ RAck(CumAck(Store(r_buffer, RcvPos(m.seqno), m.payload)), lost)
                /\ RLoop
                /\ UNCHANGED <<r_established, r_DSN, n_fin, r_active, r_snd>>
  ELSE IF m.type = FIN
    THEN /\ n_fin' = Min(n_fin + 1, MaxFin)
         /\ RAck((m.seqno + 1) % Mod16, lost)
         /\ RLoop
         /\ UNCHANGED <<r_established, r_DSN, r_buffer, lendata, dupdata, r_active, r_snd>>
  ELSE RReset /\ UNCHANGED rstate

\* A listener that starts timed_close at every FIN.
CloseTimerEveryFin(pc, type, fins, act) ==
  IF ~act THEN (IF pc = "none" THEN "none" ELSE "done")
  ELSE IF type = FIN /\ fins >= 1 THEN Arm(pc) ELSE pc

\* The timed_close thread after a datagram of the given type: started by the FIN
\* that makes n_fin 1 (lines 247-249); once active is False its wake-up changes
\* nothing.
CloseTimer(pc, type, fins, act) ==
  IF ~act THEN (IF pc = "none" THEN "none" ELSE "done")
  ELSE IF type = FIN /\ fins = 1 THEN Arm(pc) ELSE pc

\* One turn of fw_listener's loop on a datagram that passed the forward loss draw;
\* lost is the reverse loss draw of the ACK it answers with.
RcvTake(lost) ==
  /\ RHears
  /\ \E m \in Arrivals(fwd) :
       /\ RListen(m, lost)
       /\ fwd' = IF r_lpc' = "recv" THEN After(fwd) ELSE Empty
       /\ c_pc' = CloseTimer(c_pc, m.type, n_fin', r_active')
  /\ UNCHANGED <<params, svars, r_pc, r_file>>

RcvRecv == \E lost \in Losses : RcvTake(lost)

\* fw_listener drops a non-RESET datagram: "randrange(100) < flp" (lines 146-151).
RcvDrop ==
  /\ RHears /\ net = "lossy"
  /\ fwd # <<>> /\ Head(fwd).type # RESET
  /\ RLoop
  /\ fwd' = IF r_lpc' = "recv" THEN Tail(fwd) ELSE Empty
  /\ UNCHANGED <<params, svars, rstate, r_active, c_pc, r_pc, r_file, r_snd, rev>>

\* timed_close wakes 2*MSL after the first FIN.
TimedClose ==
  /\ RAlive /\ c_pc = "sleep"
  /\ r_active' = FALSE
  /\ c_pc' = "done"
  /\ UNCHANGED <<params, svars, rstate, r_lpc, r_pc, r_file, r_snd, fwd, rev>>

\* ------------------------------------------------------- receiver: run()
\* The keys of buf in increasing order: sorted(self.buffer.keys()).
RECURSIVE Sorted(_)
Sorted(S) ==
  IF S = {} THEN <<>>
  ELSE LET lo == CHOOSE x \in S : \A y \in S : x <= y IN <<lo>> \o Sorted(S \ {lo})

\* run()'s loop without its break at the first gap.
RECURSIVE CollectPastGaps(_, _, _)
CollectPastGaps(buf, scope, k) ==
  IF k > Len(scope) THEN <<>>
  ELSE <<buf[scope[k]]>> \o CollectPastGaps(buf, scope, k + 1)

\* The loop of run() over scope from index k on (lines 293-296).
RECURSIVE Collect(_, _, _)
Collect(buf, scope, k) ==
  IF k > Len(scope) THEN <<>>
  ELSE IF scope[k] # 0 /\ (scope[k] - 1) \notin DOMAIN buf THEN <<>>
  ELSE <<buf[scope[k]]>> \o Collect(buf, scope, k + 1)
Result(buf) == Collect(buf, Sorted(DOMAIN buf), 1)

\* run() leaves its wait loop, composes the result, writes the file and returns:
\* the process and its threads end.
RcvRun ==
  /\ r_pc = "wait" /\ ~r_active
  /\ r_file' = Result(r_buffer)
  /\ r_pc' = "done"
  /\ r_lpc' = "exited" /\ c_pc' = (IF c_pc = "none" THEN "none" ELSE "done")
  /\ fwd' = Empty
  /\ UNCHANGED <<params, svars, rstate, r_active, r_snd, rev>>

\* --------------------------------------------------------- specifications
\* The runs explored: DSN = 65000, so that sequence numbers wrap inside the file;
\* whole files of fewer than MaxN segments, and files of MaxN segments whose last
\* segment is short.
ISNs == {64999}
Sizes == {MSS * n : n \in 0 .. MaxN - 1} \cup {MSS * (MaxN - 1) + 500, MSS * (MaxN - 1) + 536}

\* The state after Sender(...) and Receiver(...) are constructed, over network n.
InitOn(n) ==
  /\ net = n
  /\ ISN \in ISNs
  /\ file_size \in Sizes
  /\ win_size \in 1 .. MaxW
  /\ s_established = FALSE /\ sendingdata = FALSE /\ finished = FALSE
  /\ terminate = FALSE /\ s_active = TRUE
  /\ win_lb = 0 /\ win_ub = 0
  /\ buffer_size = 0 /\ data_size = 0 /\ s_buffer = [i \in {} |-> NoPayload]
  /\ segmtRcved = [i \in {} |-> 0] /\ segmtSent = [i \in {} |-> 0]
  /\ segmtTimer = [i \in {} |-> 0]
  /\ segmtAck = NoAck /\ FSN = 0 /\ PSN = 0
  /\ m_pc = "estab_hdlr" /\ lb = 0 /\ ub = 0 /\ si = 0
  /\ e_pc = "none" /\ e_i = 0 /\ f_pc = "none" /\ f_i = 0
  /\ t_pc = [i \in 0 .. Partitions(file_size) - 1 |-> "none"]
  /\ l_pc = "recv" /\ l_ack = Idle
  /\ s_snd = [k \in {SYN, FIN, RESET} |-> 0]
  /\ r_established = FALSE /\ r_DSN = 0 /\ r_buffer = [p \in {} |-> NoPayload]
  /\ n_fin = 0 /\ r_active = TRUE /\ lendata = 0 /\ dupdata = 0
  /\ r_lpc = "recv" /\ c_pc = "none" /\ r_pc = "wait" /\ r_file = <<>> /\ r_snd = 0
  /\ fwd = (IF n = "chaos" THEN {} ELSE <<>>)
  /\ rev = (IF n = "chaos" THEN {} ELSE <<>>)

SenderNext ==
  \/ MainEstabHdlr \/ MainEstabLoop \/ MainReadFile
  \/ MainTxLoop \/ MainTxScan \/ MainFinHdlr \/ MainFinLoop
  \/ EstabSend \/ EstabWake \/ FinSend \/ FinWake
  \/ \E i \in DOMAIN t_pc : TimerWake(i)
  \/ \E i \in DOMAIN t_pc : TimerSend(i)
  \/ SndRecv

ReceiverNext == RcvRecv \/ TimedClose \/ RcvRun

\* Loopback with the receiver's loss simulation: FIFO, no duplicates, losses.
Init == InitOn("lossy")
Next == SenderNext \/ ReceiverNext \/ RcvDrop
Spec == Init /\ [][Next]_vars

\* flp = rlp = 0: FIFO, no duplicates, no losses.
InitReliable == InitOn("reliable")
NextReliable == SenderNext \/ ReceiverNext
SpecReliable == InitReliable /\ [][NextReliable]_vars

\* Scheduling: every thread that can take a step eventually takes one, and the
\* loss draws (randrange(100) < flp, < rlp) do not come out "lost" forever.
Threads ==
  /\ WF_vars(MainEstabHdlr \/ MainEstabLoop \/ MainReadFile \/ MainTxLoop
               \/ MainTxScan \/ MainFinHdlr \/ MainFinLoop)
  /\ WF_vars(EstabSend \/ EstabWake)
  /\ WF_vars(FinSend \/ FinWake)
  /\ \A i \in 0 .. MaxN - 1 :
       WF_vars(i \in DOMAIN t_pc /\ (TimerWake(i) \/ TimerSend(i)))
  /\ WF_vars(SndRecv)
  /\ WF_vars(RcvRecv \/ RcvDrop)
  /\ SF_vars(RcvTake(FALSE))
  /\ WF_vars(TimedClose)
  /\ WF_vars(RcvRun)
SpecFair == Init /\ [][Next]_vars /\ Threads

\* The receiver's own scheduling only: timed_close wakes when its sleep is over,
\* and run() leaves its polling loop once active is False.
SpecClose == Init /\ [][Next]_vars /\ WF_vars(TimedClose) /\ WF_vars(RcvRun)

\* A wire that may lose, duplicate and reorder datagrams.
InitChaos == InitOn("chaos")
NextChaos == SenderNext \/ ReceiverNext
SpecChaos == InitChaos /\ [][NextChaos]_vars

\* The same wire, with the listener's cumulative-ACK branch taken write by write
\* and the scheduler's snapshot read by read: every interleaving of the sender's
\* threads at the shared variables.
NextSteps ==
  \/ MainEstabHdlr \/ MainEstabLoop \/ MainReadFile
  \/ MainTxLb \/ MainTxUb \/ MainTxScan \/ MainFinHdlr \/ MainFinLoop
  \/ EstabSend \/ EstabWake \/ FinSend \/ FinWake
  \/ \E i \in DOMAIN t_pc : TimerWake(i)
  \/ \E i \in DOMAIN t_pc : TimerSend(i)
  \/ SndTake \/ SndSending \/ SndFlag \/ SndLeave \/ SndFsn \/ SndUb \/ SndLb
  \/ ReceiverNext
SpecSteps == InitChaos /\ [][NextSteps]_vars

\* A wire on which the receiver's socket is also reached by datagrams the sender
\* never sent: recvfrom takes whatever arrives at the port. Every type, the
\* unknown type RESET + 1 included, with the sequence number of the SYN or of the
\* first DATA and no payload, arriving while nothing else is under way; the file
\* sent is one whole segment, with W = 1.
Forged == {Seg(ty, s) : ty \in DATA .. RESET + 1, s \in {ISN, DSN}}
Forge ==
  /\ RHears /\ fwd = <<>>
  /\ \E m \in Forged : fwd' = Append(fwd, m)
  /\ UNCHANGED <<params, svars, rvars, rev>>
InitForged == InitOn("reliable") /\ file_size = MSS /\ win_size = 1
NextForged == SenderNext \/ ReceiverNext \/ Forge
SpecForged == InitForged /\ [][NextForged]_vars

\* ------------------------------------------- sequence-number inversion
\* The largest position whose byte offset is below 15 * 2^16 ("support up to 983
\* KB file"), initial sequence numbers around the wrap and across the range, and
\* files of that many segments and of half as many, whole and with a short end.
MaxPos == (Cycles * Mod16) \div MSS
InvISNs == {Mod16 - 1, 0, 38, 39, 535, 30000, 64535, 64999, Mod16 - 2}
InvSizes == {MSS * MaxPos, MSS * MaxPos - 464, MSS * (MaxPos \div 2), MSS * (MaxPos \div 2) + 72}
\* Position i is within the 15 cycles of the position computations.
InCycles(i) == DSN + MSS * i < Cycles * Mod16

\* An established connection right after read_file, as the handshake and read_file
\* leave the two peers when nothing is lost.
InitInvert ==
  /\ net = "reliable" /\ ISN \in InvISNs /\ file_size \in InvSizes /\ win_size = 1
  /\ s_established = TRUE /\ sendingdata = TRUE /\ finished = FALSE
  /\ terminate = FALSE /\ s_active = TRUE
  /\ win_lb = 0 /\ win_ub = Min(win_size - 1, Partitions(file_size) - 1)
  /\ buffer_size = Partitions(file_size) /\ data_size = file_size
  /\ s_buffer = FileBuffer(file_size)
  /\ segmtRcved = [i \in 0 .. Partitions(file_size) - 1 |-> 0]
  /\ segmtSent = [i \in 0 .. Partitions(file_size) - 1 |-> 0]
  /\ segmtTimer = [i \in 0 .. Partitions(file_size) - 1 |-> 0]
  /\ segmtAck = NoAck /\ FSN = 0 /\ PSN = DSN
  /\ m_pc = "tx_loop" /\ lb = 0 /\ ub = 0 /\ si = 0
  /\ e_pc = "done" /\ e_i = 0 /\ f_pc = "none" /\ f_i = 0
  /\ t_pc = [i \in 0 .. Partitions(file_size) - 1 |-> "none"]
  /\ l_pc = "recv" /\ l_ack = Idle
  /\ s_snd = [k \in {SYN, FIN, RESET} |-> IF k = SYN THEN 1 ELSE 0]
  /\ r_established = TRUE /\ r_DSN = DSN /\ r_buffer = [p \in {} |-> NoPayload]
  /\ n_fin = 0 /\ r_active = TRUE /\ lendata = 0 /\ dupdata = 0
  /\ r_lpc = "recv" /\ c_pc = "none" /\ r_pc = "wait" /\ r_file = <<>> /\ r_snd = 0
  /\ fwd = <<>> /\ rev = <<>>

\* rv_listener decodes an ACK carrying the sequence number of position i and
\* computes pos (lines 313-356); the turn is followed no further.
SndLocate ==
  /\ SHears /\ s_established /\ sendingdata
  /\ l_ack = Idle /\ DOMAIN r_buffer = {}
  /\ \E i \in 0 .. buffer_size :
       /\ InCycles(i)
       /\ l_ack' = [at |-> "pos", seqno |-> (DSN + MSS * i) % Mod16,
                    pos |-> SndPos((DSN + MSS * i) % Mod16), j |-> 0]
  /\ UNCHANGED <<params, sflags, swin, sfile, sarr, segmtAck, FSN, PSN, smain, sexec, t_pc,
                 l_pc, s_snd, rvars, fwd, rev>>

\* fw_listener decodes the DATA segment of position i, computes pos and stores
\* the payload there (lines 201-217); the turn is followed no further.
RcvLocate ==
  /\ RHears /\ r_established /\ n_fin = 0
  /\ l_ack = Idle /\ DOMAIN r_buffer = {}
  /\ \E i \in DOMAIN s_buffer :
       /\ InCycles(i)
       /\ r_buffer' = Store(r_buffer, RcvPos((DSN + MSS * i) % Mod16), s_buffer[i])
       /\ lendata' = Received(r_buffer, RcvPos((DSN + MSS * i) % Mod16), s_buffer[i])
       /\ dupdata' = Duplicates(r_buffer, RcvPos((DSN + MSS * i) % Mod16))
  /\ UNCHANGED <<params, svars, r_established, r_DSN, n_fin, rthr, fwd, rev>>

NextInvert == SndLocate \/ RcvLocate
SpecInvert == InitInvert /\ [][NextInvert]_vars

\* ------------------------------------------------------------------ claims
\* The file read by Sender.read_file, as the sequence of its segments' payloads.
Input == AsSeq(FileBuffer(file_size), Partitions(file_size))
\* Both processes have ended.
BothEnded == ~SAlive /\ ~RAlive
\* terminate was set by a SYN or FIN executor giving up.
RetriesExhausted == e_pc = "gaveup" \/ f_pc = "gaveup"

\* C1: without losses (flp = rlp = 0), for a file of N >= 1 segments, any window and
\* any rto, no peer sends RESET, and when both peers have ended the file written
\* by Receiver.run equals the file read by Sender.read_file.
C1_RoundTrip ==
  file_size > 0 =>
    /\ s_snd[RESET] = 0 /\ r_snd = 0 /\ ~terminate
    /\ BothEnded => r_file = Input
\* The number of positions of the longest gap-free run of buf from position 0.
PrefixLen(buf) ==
  CHOOSE k \in 0 .. Cardinality(DOMAIN buf) :
    (\A j \in 0 .. k - 1 : j \in DOMAIN buf) /\ k \notin DOMAIN buf
\* Sequence a is a prefix of sequence b.
IsPrefix(a, b) == Len(a) <= Len(b) /\ \A j \in 1 .. Len(a) : a[j] = b[j]

\* C2: under any loss, duplication or reordering, every buffered position holds
\* the sender's payload of that position, and however the receiver terminates, the
\* output written by Receiver.run is buffer[0..k-1] for the longest gap-free k, a
\* prefix of the sender's input.
C2_OutputIsPrefix ==
  /\ \A p \in DOMAIN r_buffer :
       p \in 0 .. Partitions(file_size) - 1 /\ r_buffer[p] = FileBuffer(file_size)[p]
  /\ r_pc = "done" =>
       /\ r_file = AsSeq(r_buffer, PrefixLen(r_buffer))
       /\ IsPrefix(r_file, Input)
\* The receiver has ended holding a position after a gap, which it discarded.
C2_GapDiscarded ==
  r_pc = "done" /\ 1 \in DOMAIN r_buffer /\ 0 \notin DOMAIN r_buffer /\ r_file = <<>>
C4_EmptyFileGoesToFin ==
  (file_size = 0 /\ s_established /\ SAlive /\ s_active /\ ~terminate)
    ~> (s_snd[FIN] > 0 \/ ~SAlive \/ ~s_active \/ terminate)
\* C5: on a wire that may lose, duplicate and reorder datagrams but invents none,
\* no peer enters RESET_PENDING because of a copy of a segment the other peer
\* sent: the receiver never resets, and the sender's terminate flag is only ever
\* set by the SYN or FIN retries running out.
C5_OnlyRetriesReset ==
  /\ r_snd = 0
  /\ terminate => RetriesExhausted
\* The datagram the receiver's listener reads next is a retransmission of what the
\* receiver already has: a SYN after the handshake, or DATA for a buffered position.
RetransmissionNext ==
  /\ RHears /\ fwd # <<>> /\ r_established
  /\ \/ Head(fwd).type = SYN
     \/ Head(fwd).type = DATA /\ RcvPos(Head(fwd).seqno) \in DOMAIN r_buffer
\* The datagram the sender's listener reads next repeats the last ACK it read.
RepeatedAckNext ==
  /\ SHears /\ rev # <<>> /\ s_established
  /\ Head(rev).type = ACK /\ Head(rev).seqno = PSN

\* C6: over the FIFO channel that duplicates nothing, a retransmitted SYN or DATA
\* that reaches a receiver which already has it changes neither the receiver's
\* buffer nor makes it reset, and a repeated ACK that reaches the sender, in
\* whatever phase, changes no acked flag and does not set terminate.
C6_RetransmissionsAbsorbed ==
  [][/\ RetransmissionNext => (r_buffer' = r_buffer /\ r_snd' = r_snd)
     /\ RepeatedAckNext =>
          /\ segmtRcved' = segmtRcved
          /\ (terminate' /\ ~terminate) => (e_pc' = "gaveup" \/ f_pc' = "gaveup")]_vars
\* The sender is in SENDING with its connection standing.
InSending == SAlive /\ s_established /\ sendingdata /\ s_active /\ ~terminate

\* C7: with every thread scheduled and a channel that does not lose a segment
\* sent again and again, a sender in SENDING with a file of N >= 1 segments
\* eventually has every position acked and leaves SENDING, unless the connection
\* is torn down.
C7_SendingEnds == (InSending /\ file_size > 0) ~> ~InSending
\* C8: the sender transmits SYN at most 4 times and FIN at most 4 times, the i-th
\* trial sleeping after the i-th transmission; an executor gives up, setting
\* terminate, exactly when it wakes from the 4th transmission with the matching
\* ACK not arrived, and never before the 4th transmission has timed out.
C8_FourTries ==
  /\ [](/\ s_snd[SYN] <= MaxTries /\ s_snd[FIN] <= MaxTries
        /\ e_pc = "sleep" => s_snd[SYN] = e_i
        /\ f_pc = "sleep" => s_snd[FIN] = f_i
        /\ e_pc = "send" => s_snd[SYN] = e_i - 1
        /\ f_pc = "send" => s_snd[FIN] = f_i - 1
        /\ e_pc = "gaveup" => (s_snd[SYN] = MaxTries /\ terminate)
        /\ f_pc = "gaveup" => (s_snd[FIN] = MaxTries /\ terminate))
  /\ [][/\ (e_pc # "gaveup" /\ e_pc' = "gaveup") =>
             (e_pc = "sleep" /\ e_i = MaxTries /\ ~s_established /\ terminate')
        /\ (f_pc # "gaveup" /\ f_pc' = "gaveup") =>
             (f_pc = "sleep" /\ f_i = MaxTries /\ ~finished /\ terminate')
        /\ ~(e_pc = "sleep" /\ e_i = MaxTries /\ e_pc' = "send")
        /\ ~(f_pc = "sleep" /\ f_i = MaxTries /\ f_pc' = "send")]_vars
\* The 4th FIN has timed out without its ACK, after a handshake that took retries.
C8_FinGaveUp == f_pc = "gaveup" /\ s_snd[SYN] > 1 /\ m_pc = "closed"
\* The SYN executor gave up and the receiver has accepted no SYN.
HandshakeFailed == e_pc = "gaveup" /\ ~r_established

\* C9 as stated: when the first SYN and its 3 retransmissions are all dropped, the
\* sender emits RESET and closes, and the receiver is still in LISTEN afterwards:
\* active, listening, not closed.
C9_ReceiverStillListens ==
  (HandshakeFailed /\ ~SAlive) =>
    (s_snd[RESET] = 1 /\ r_active /\ r_lpc = "recv" /\ RAlive)

\* C9, amended: when the first SYN and its 3 retransmissions are all dropped, the
\* sender sets terminate and closes having emitted exactly one RESET; the receiver
\* emits nothing and stays in LISTEN until it reads that RESET, which makes it
\* inactive; it then ends with an empty output file.
C9_ReceiverListensUntilReset ==
  HandshakeFailed =>
    /\ terminate /\ s_snd[SYN] = MaxTries /\ s_snd[FIN] = 0
    /\ s_snd[RESET] = (IF SAlive THEN 0 ELSE 1)
    /\ r_snd = 0 /\ rev = <<>> /\ DOMAIN r_buffer = {}
    /\ r_active => (r_lpc = "recv" /\ RAlive)
    /\ ~r_active => (~SAlive /\ fwd = <<>>)
    /\ ~RAlive => r_file = <<>>
\* The sender has given up and closed, and the receiver has read its RESET and ended.
C9_ReceiverReadReset == HandshakeFailed /\ ~SAlive /\ ~r_active /\ ~RAlive
\* The datagrams of a channel.
InFlight(ch) == IF Chaos THEN ch ELSE {ch[j] : j \in 1 .. Len(ch)}
\* The sender's listener has set terminate and left its loop on a segment that is
\* not acceptable in its phase (a RESET clears active, an IndexError crashes it).
SenderDetected == SAlive /\ l_pc = "exited" /\ s_active

\* C10: a peer that detects a protocol violation emits exactly one RESET, with
\* seqno 0, and then closes; a peer that reads a RESET becomes inactive without
\* emitting anything on that step and never emits a RESET of its own; no peer
\* emits more than one RESET.
C10_ViolationResetsOnce ==
  /\ [](/\ s_snd[RESET] <= 1 /\ r_snd <= 1
        /\ (\A m \in InFlight(fwd) \cup InFlight(rev) : m.type = RESET => m.seqno = 0)
        /\ SenderDetected => terminate
        /\ r_snd = 1 => ~r_active
        /\ (~SAlive /\ ~terminate) => s_snd[RESET] = 0)
  /\ [][/\ (SenderDetected /\ ~SAlive') => (s_snd[RESET] = 0 /\ s_snd'[RESET] = 1)
        /\ (s_active /\ ~s_active' /\ SAlive') => (fwd' = fwd /\ s_snd' = s_snd)
        /\ (r_active /\ ~r_active' /\ r_snd' = r_snd) => rev' = rev]_vars
\* The receiver's listener reads an acceptable FIN next.
FinNext == RHears /\ fwd # <<>> /\ Head(fwd).type = FIN /\ r_established

\* C11: the receiver arms exactly one close timer over a connection, on the first
\* FIN it accepts; a later FIN with sequence s is answered with ACK (s + 1) mod 2^16
\* (unless the reverse loss draw drops it) and neither arms another timer nor
\* restarts the running one; once the first FIN is accepted the receiver
\* eventually becomes inactive and Receiver.run writes the output file, once.
C11_OneCloseTimer ==
  /\ [](/\ c_pc # "again"
        /\ c_pc # "none" <=> n_fin > 0
        /\ c_pc = "sleep" => r_active)
  /\ [][/\ (c_pc # "sleep" /\ c_pc' = "sleep") =>
             (RcvRecv /\ FinNext /\ c_pc = "none" /\ n_fin = 0 /\ n_fin' = 1)
        /\ (RcvRecv /\ FinNext /\ n_fin > 0) =>
             /\ rev' \in {rev, ToSnd(Seg(ACK, (Head(fwd).seqno + 1) % Mod16))}
             /\ c_pc' = c_pc /\ r_active' = r_active /\ r_snd' = r_snd
        /\ r_pc = "done" => (r_pc' = "done" /\ r_file' = r_file)]_vars
  /\ (n_fin > 0) ~> (~r_active /\ r_pc = "done")
\* The receiver took a second FIN while its close timer ran, was closed by that
\* timer, and has written its file.
C11_ClosedAfterTwoFins ==
  n_fin = MaxFin /\ c_pc = "done" /\ r_pc = "done" /\ r_snd = 0 /\ r_file = Input /\ file_size > 0
\* C12: in every sender state, the states between the individual writes of the
\* ACK handler included, every position below win_lb has segmtRcved = 1; win_lb
\* never decreases and an acked position never becomes unacked again.
C12_AckedBelowLb ==
  /\ [](\A i \in 0 .. win_lb - 1 : i \in DOMAIN segmtRcved /\ segmtRcved[i] = 1)
  /\ [][/\ win_lb' >= win_lb
        /\ \A i \in DOMAIN segmtRcved :
             segmtRcved[i] = 1 => (i \in DOMAIN segmtRcved' /\ segmtRcved'[i] = 1)]_vars
\* The listener has flagged position 0 for an ACK that slides the window to 1, and
\* has written win_ub but not yet win_lb.
C12_BetweenWrites ==
  Handling("lb") /\ l_ack.pos = 1 /\ win_lb = 0 /\ win_ub = 1 /\ segmtRcved[0] = 1
\* C13: for a file of N >= 1 segments and W >= 1, in every sender state after
\* read_file, the state between the listener's write of win_ub and its write of
\* win_lb included, 0 <= win_lb <= win_ub < N, win_ub - win_lb + 1 <= W, and win_lb
\* is the oldest unacked position, if there is one.
C13_WindowBounds ==
  (DOMAIN segmtRcved # {} /\ win_size >= 1) =>
    /\ 0 <= win_lb /\ win_lb <= win_ub /\ win_ub < buffer_size
    /\ win_ub - win_lb + 1 <= win_size
    /\ \A i \in DOMAIN segmtRcved :
         (segmtRcved[i] = 0 /\ \A k \in 0 .. i - 1 : segmtRcved[k] = 1) => i = win_lb
\* C14: every pair (lb, ub) the transmit scheduler scans is a window the sender
\* had: the lower bound of a window together with the upper bound that read_file
\* or the slide gave that same window, ub = min(lb + W - 1, N - 1), never the lower
\* bound of one window with the upper bound of another.
C14_SnapshotConsistent == m_pc = "tx_scan" => ub = SlideUb(lb)
\* C15: under every interleaving of the scheduler, listener and timer threads,
\* no retransmission timer task is started for a position that has had one: the
\* task of position i is started once, by the scan whose snapshot has lb = i, at
\* the step that sets segmtTimer[i]; so at most one is alive per position.
C15_OneTimerPerPosition ==
  /\ [](\A i \in DOMAIN t_pc :
          /\ t_pc[i] # "again"
          /\ (SAlive /\ t_pc[i] # "none") => (i \in DOMAIN segmtTimer /\ segmtTimer[i] = 1))
  /\ [][\A i \in DOMAIN t_pc :
          (t_pc[i] = "none" /\ t_pc'[i] # "none" /\ SAlive') =>
            (m_pc = "tx_scan" /\ si = i /\ lb = i /\ segmtTimer[i] = 0 /\ segmtTimer'[i] = 1)]_vars
\* With W = 2, position 1 was sent while position 0 was the lower bound, and got
\* its timer from a later scan, after the window had slid to it.
C15_SecondTimerArmed ==
  win_size = 2 /\ DOMAIN segmtTimer = {0, 1} /\ segmtTimer[0] = 1 /\ t_pc[1] = "sleep"
    /\ win_lb = 1
\* C16: in every sender state during SENDING, position i has an armed
\* retransmission timer (segmtTimer[i] = 1) if and only if i is the current window
\* lower bound win_lb and i is unacked.
C16_TimerIffLowerBound ==
  (InSending /\ DOMAIN segmtTimer # {}) =>
    \A i \in DOMAIN segmtTimer :
      segmtTimer[i] = 1 <=> (i = win_lb /\ segmtRcved[i] = 0)
\* The sender's listener handles a datagram in SENDING.
SendingTurn == SndRecv /\ s_established /\ sendingdata
\* Duplicates counted so far, this one included, when the listener has read an
\* ACK with sequence number s for pos: none when s differs from the previous ACK.
DupCount(s, pos) ==
  IF PSN # s THEN 0
  ELSE IF pos \in DOMAIN segmtAck THEN segmtAck[pos] + 1 ELSE 1

\* C17: in SENDING, an ACK that refers to pos = win_lb and repeats the sequence
\* number of the ACK before it is counted as a duplicate; the sender emits one
\* fast-retransmit DATA for pos on the 3rd, 6th, 9th, ... duplicate and none on any
\* other; an ACK with a different sequence number restarts the count; the timer
\* flag and timer task of pos are left untouched, and the listener survives.
C17_FastRetransmit ==
  [][SendingTurn =>
       /\ ~(l_pc' = "crashed" /\ segmtRcved' = segmtRcved)
       /\ (l_pc' = "recv" /\ SndPos(PSN') = win_lb) =>
            LET k == DupCount(PSN', win_lb)
            IN /\ segmtAck' = IF k = 0 THEN NoAck
                              ELSE [p \in DOMAIN segmtAck \cup {win_lb} |->
                                      IF p = win_lb THEN Fold(k) ELSE segmtAck[p]]
               /\ fwd' = IF k > 0 /\ k % DupAcks = 0
                           THEN ToRcv(DataSeg((DSN + MSS * win_lb) % Mod16, s_buffer[win_lb]))
                           ELSE fwd
               /\ segmtTimer' = segmtTimer /\ t_pc' = t_pc]_vars
\* The main thread has left transeg_exec_hdlr's loop, or a FIN has been sent.
LeftSending == m_pc \in {"fin_hdlr", "fin_loop"} \/ s_snd[FIN] > 0

\* C18: the sender leaves SENDING and emits FIN only after an ACK with pos = N has
\* marked every position 0..N-1 acked, and every FIN it emits carries seqno
\* FSN = (DSN + file_size) mod 2^16, the sequence number of that ACK.
C18_FinAfterAllAcked ==
  /\ LeftSending =>
       /\ DOMAIN segmtRcved = 0 .. Partitions(file_size) - 1
       /\ \A i \in DOMAIN segmtRcved : segmtRcved[i] = 1
  /\ \A m \in InFlight(fwd) : m.type = FIN => m.seqno = (DSN + file_size) % Mod16
\* In SENDING, with a file that is no multiple of MSS, the sender's listener reads
\* next the ACK s with (s - DSN) mod 2^16 = file_size mod 2^16.
FinalAckNext ==
  /\ SHears /\ rev # <<>> /\ s_established /\ sendingdata
  /\ data_size = file_size /\ file_size % MSS # 0
  /\ Head(rev).type = ACK /\ Head(rev).seqno = (DSN + file_size) % Mod16

\* C19: for a file size that is no multiple of MSS, when the sender in SENDING
\* receives the ACK s with (s - DSN) mod 2^16 = file_size mod 2^16, its position
\* computation yields pos = N and it completes the transfer (sendingdata becomes
\* False, FSN = s); it never classifies that ACK as a lower position.
C19_FinalAckCompletes ==
  [][(SndRecv /\ FinalAckNext) =>
       /\ SndPos(Head(rev).seqno) = buffer_size
       /\ ~sendingdata' /\ FSN' = Head(rev).seqno]_vars
\* C20: sequence-number inversion is a round trip: for the initial sequence
\* numbers and files drawn, and every position i of the file (0 <= i <= N) with
\* DSN + 1000*i < 15 * 2^16, the sender's position computation applied to an ACK
\* carrying (DSN + 1000*i) mod 2^16 returns exactly i, and the receiver's applied
\* to the DATA segment with that sequence number stores its payload at i.
C20_InversionRoundTrip ==
  /\ l_ack.at = "pos" =>
       /\ \E i \in 0 .. buffer_size : InCycles(i) /\ (DSN + MSS * i) % Mod16 = l_ack.seqno
       /\ \A i \in 0 .. buffer_size :
            (InCycles(i) /\ (DSN + MSS * i) % Mod16 = l_ack.seqno) => l_ack.pos = i
  /\ \A p \in DOMAIN r_buffer : p \in DOMAIN s_buffer /\ r_buffer[p] = s_buffer[p]
\* With DSN = 39 the sender has inverted the ACK of the last position below
\* 15 * 2^16, a sequence number that wrapped 14 times.
C20_LastCycle ==
  DSN = 39 /\ l_ack.at = "pos" /\ l_ack.pos = MaxPos /\ l_ack.seqno = 39 + MSS * MaxPos - 14 * Mod16
\* The receiver's listener, in ESTAB with no FIN seen, handles a DATA segment.
DataTurn == RcvRecv /\ r_established /\ n_fin = 0 /\ n_fin' = 0 /\ r_active'
\* Bytes of positions 0 .. k - 1 of buf.
RECURSIVE SumLen(_, _)
SumLen(buf, k) == IF k = 0 THEN 0 ELSE SumLen(buf, k - 1) + buf[k - 1].len
\* DSN plus the bytes of the gap-free run of buf from position 0, mod 2^16.
PrefixAck(buf) == (r_DSN + SumLen(buf, PrefixLen(buf))) % Mod16

\* C21: whatever the arrival order of the segments, the ACK the receiver computes
\* in response to a DATA segment carries (DSN + the payload lengths of the
\* contiguous buffered prefix from position 0) mod 2^16, evaluated on the buffer
\* after that DATA has been processed; that ACK is what it sends (unless the
\* reverse loss draw drops it).
C21_CumulativeAck ==
  [][DataTurn =>
       \/ rev' = ToSnd(Seg(ACK, PrefixAck(r_buffer')))
       \/ net = "lossy" /\ rev' = rev]_vars
\* Position 1 arrived before position 0: the sender has been sent the ACK for both
\* positions, and never the ACK for position 0 alone.
C21_FilledGap ==
  /\ SHears /\ DOMAIN r_buffer = {0, 1}
  /\ Seg(ACK, (DSN + file_size) % Mod16) \in InFlight(rev)
  /\ Seg(ACK, (DSN + MSS) % Mod16) \notin InFlight(rev)
\* In ESTAB with no FIN seen, the receiver's listener reads next a DATA segment
\* for a position it has in its buffer.
DuplicateNext ==
  /\ RHears /\ fwd # <<>> /\ r_established /\ n_fin = 0
  /\ Head(fwd).type = DATA /\ RcvPos(Head(fwd).seqno) \in DOMAIN r_buffer

\* C22: when a DATA segment for a position already in the buffer arrives in ESTAB
\* with no FIN seen, the buffer and the received-byte counter are unchanged, the
\* cumulative ACK computed is the one of the buffer as it was before the duplicate
\* arrived, and of the receiver's state only the duplicate counter grows.
C22_DuplicateIdempotent ==
  [][(RcvRecv /\ DuplicateNext) =>
       /\ r_buffer' = r_buffer /\ lendata' = lendata
       /\ rev' \in {rev, ToSnd(Seg(ACK, PrefixAck(r_buffer)))}
       /\ dupdata' = Min(dupdata + 1, MaxDup)
       /\ UNCHANGED <<r_established, r_DSN, n_fin, r_active, r_lpc, c_pc, r_pc, r_file, r_snd>>]_vars
\* Both positions of a two-segment file are buffered, a duplicate of one of them
\* has been counted, and the byte counter is the size of the file.
C22_DuplicateCounted ==
  DOMAIN r_buffer = {0, 1} /\ dupdata = 1 /\ lendata = file_size /\ n_fin = 0 /\ RHears
\* A step in which a thread of the sender sends a datagram: the SYN and FIN
\* executors, a retransmission timer, the transmit scheduler, the listener's fast
\* retransmission, or reset().
SndEmits ==
  \/ EstabSend \/ FinSend
  \/ \E i \in DOMAIN t_pc : TimerSend(i)
  \/ MainTxScan /\ segmtSent' # segmtSent
  \/ SndRecv /\ fwd' # fwd
  \/ s_snd'[RESET] # s_snd[RESET]
\* A step in which the receiver's listener reads a datagram off its socket.
RcvDecodes == RcvRecv \/ RcvDrop

\* C23: once a peer's active flag is False (after close, reset, the reception of a
\* RESET or the 2*MSL timer), no thread of that peer sends a datagram and its
\* listener decodes none, under every interleaving of the peer's threads.
C23_SilentOnceInactive ==
  [][/\ ~s_active => ~(SndEmits \/ SndRecv)
     /\ ~r_active => ~RcvDecodes]_vars
\* A step in which the sender sends a DATA segment: a retransmission timer, the
\* transmit scheduler, or the listener's fast retransmission.
SndEmitsData ==
  \/ \E i \in DOMAIN t_pc : TimerSend(i)
  \/ MainTxScan /\ segmtSent' # segmtSent
  \/ SndRecv /\ fwd' # fwd

\* C24: once the sender has emitted its first FIN it never emits another DATA
\* segment, under every interleaving of the retransmission timer threads (which
\* test the acked flag and then send) with the listener and the main thread.
C24_NoDataAfterFin == [][s_snd[FIN] > 0 => ~SndEmitsData]_vars
\* The positions sent and not yet acked.
Outstanding == {i \in DOMAIN segmtSent : segmtSent[i] = 1 /\ segmtRcved[i] = 0}

\* C25: in every sender state the number of positions that have been sent and are
\* not yet acked is at most W, also when the scheduler reads win_lb and win_ub
\* while the listener is between its two window writes.
C25_OutstandingWithinWindow == Cardinality(Outstanding) <= win_size
\* With W = 1 the scheduler has read win_ub = 1 after the listener wrote it, scanned
\* (0, 1) and sent position 1, and the listener has still not written win_lb.
C25_SentBetweenWrites ==
  win_size = 1 /\ Handling("lb") /\ win_lb = 0 /\ win_ub = 1 /\ Outstanding = {1}
\* The sender's listener, in SENDING, handles an ACK whose computed position is
\* below win_lb (PSN is the sequence number of the ACK a turn has handled).
StaleTurn == SendingTurn /\ l_pc' = "recv" /\ SndPos(PSN') < win_lb

\* C26: a stale ACK in SENDING (computed pos < win_lb) leaves win_lb, win_ub, the
\* sent, acked and timer flags, the timer tasks and the phase flags unchanged, and
\* causes no segment to be emitted.
C26_StaleAckIgnored ==
  [][StaleTurn =>
       UNCHANGED <<win_lb, win_ub, segmtSent, segmtRcved, segmtTimer, t_pc, s_established,
                   sendingdata, finished, terminate, s_active, fwd, s_snd>>]_vars
\* After the window has slid to position 1, the listener has handled a late copy
\* of the handshake ACK, whose position is 0.
C26_LateHandshakeAck ==
  SHears /\ s_established /\ sendingdata /\ win_lb = 1 /\ PSN = DSN /\ RHears
\* The cases in which fw_listener resets on segment m.
ResetCase(m) ==
  \/ ~r_established /\ m.type \notin {SYN, RESET}
  \/ r_established /\ m.type \notin {DATA, FIN, RESET}
  \/ r_established /\ m.type = DATA /\ n_fin # 0

\* C27: the receiver emits RESET and becomes inactive exactly when its listener
\* reads, in LISTEN, a segment that is neither SYN nor RESET; in ESTAB, a SYN, an
\* ACK or a segment of unknown type; in ESTAB, a DATA after any FIN has been seen.
\* In LISTEN a SYN with sequence s sets DSN = (s + 1) mod 2^16, is answered with
\* ACK DSN and moves the receiver to ESTAB; a DATA after FIN does not modify the
\* reassembly buffer.
C27_ReceiverResetCases ==
  [][/\ r_snd' # r_snd => RcvRecv
     /\ RcvRecv =>
          /\ ResetCase(Head(fwd)) <=> r_snd' = r_snd + 1
          /\ ResetCase(Head(fwd)) =>
               (~r_active' /\ r_lpc' = "exited" /\ rev' = ToSnd(Seg(RESET, 0)))
          /\ (~r_established /\ Head(fwd).type = SYN) =>
               /\ r_DSN' = (Head(fwd).seqno + 1) % Mod16 /\ r_established' /\ r_active'
               /\ rev' = ToSnd(Seg(ACK, (Head(fwd).seqno + 1) % Mod16))
          /\ (r_established /\ Head(fwd).type = DATA /\ n_fin # 0) => r_buffer' = r_buffer
          /\ r_established => r_established']_vars
\* The receiver has reset in LISTEN, on a segment that was not a SYN.
C27_ResetInListen ==
  ~r_established /\ r_snd = 1 /\ ~r_active /\ Seg(RESET, 0) \in InFlight(rev)
\* A step in which the sender sends the DATA segment of position i: the scheduler's
\* first transmission, a retransmission by the timer of i, or the listener's fast
\* retransmission, which is of position win_lb.
EmitsPos(i) ==
  \/ /\ MainTxScan /\ si = i /\ i \in DOMAIN segmtSent
     /\ segmtSent[i] = 0 /\ segmtSent'[i] = 1
  \/ i \in DOMAIN t_pc /\ TimerSend(i)
  \/ SndRecv /\ fwd' # fwd /\ win_lb = i

====
